---------------------------- MODULE Spec2Model ----------------------------
(***************************************************************************)
(* Billiard simulation of src/modeling-1/main.py: BilliardBall,            *)
(* BilliardTable and the BilliardAnimation driver.                         *)
(*                                                                         *)
(* Number representation.  The program computes with floats; the model     *)
(* computes on integer grids and truncates every inexact quotient toward   *)
(* zero (Quot):                                                            *)
(*   - a velocity is counted in 1/VelScale length units per second;        *)
(*   - a time increment is counted in ticks of 1/TicksPerSecond seconds    *)
(*     (the driver's dt = 0.05 s is one tick);                             *)
(*   - a position is counted in 1/PosScale length units, with              *)
(*     PosScale = VelScale * TicksPerSecond, so that x + vx * dt is exact; *)
(*   - a collision normal is counted in 1/NormScale;                       *)
(*   - np.sqrt is the integer square root, np.exp(-mu * dt) is read from   *)
(*     ExpTable, np.cos/np.sin of the launch angle from cos_deg/sin_deg.   *)
(* Truncation toward zero keeps the one property of float multiplication   *)
(* that the stepping relies on: scaling a non-zero component by a factor   *)
(* below one strictly shrinks it.                                          *)
(***************************************************************************)
EXTENDS Integers, Sequences, FiniteSets, TLC

VARIABLES
    balls,              \* BilliardTable.balls: sequence of ball records
    time,               \* BilliardAnimation.time, in ticks
    animation_running,  \* BilliardAnimation.animation_running
    results,            \* what show_results has printed: one report per call
    total_path,         \* value returned by the last get_total_path_length
                        \* call made since the last driver step, or -1
    after_wall,         \* each ball's position when its check_wall_collision
                        \* call of the last table update returned
    before              \* argument of the last direct library call (the
                        \* ball sequence it was applied to), or << >>

vars == <<balls, time, animation_running, results, total_path, after_wall, before>>

-----------------------------------------------------------------------------
(* Scales and program constants *)

VelScale == 10 * 100
TicksPerSecond == 2 * 10
PosScale == VelScale * TicksPerSecond
NormScale == 10 * 100

\* dt = 0.05 in BilliardAnimation.update: one tick
dt == 1

\* frames=1000 of the FuncAnimation that schedules BilliardAnimation.update
frames == 1000

\* BilliardTable.__init__(width=10, height=6)
width == 10 * PosScale
height == 6 * PosScale

\* ball_radius = 0.3 in setup_balls_triangle
ball_radius == (3 * PosScale) \div 10

\* speed < 0.02 in apply_friction
StopSpeed == (2 * VelScale) \div 100

\* np.exp(-self.mu * dt) with mu = 0.2, for dt = 0, 1, 2, ... ticks, in
\* 1/ExpScale: exp(0), exp(-0.01), exp(-0.02), ...
ExpScale == 100 * 1000
ExpTable == <<100000, 99005, 98020, 97045, 96079, 95123, 94176, 93239>>

-----------------------------------------------------------------------------
(* Arithmetic *)

Abs(a) == IF a < 0 THEN -a ELSE a

\* a / b truncated toward zero (b > 0)
Quot(a, b) == IF a >= 0 THEN a \div b ELSE -((-a) \div b)

\* a power of two above the square root of n (0 <= n < 2^31)
sqrt_guess(n) ==
    IF n < 256 THEN 16
    ELSE IF n < 4096 THEN 64
    ELSE IF n < 65536 THEN 256
    ELSE IF n < 1048576 THEN 1024
    ELSE IF n < 16777216 THEN 4096
    ELSE IF n < 268435456 THEN 16384
    ELSE 46341

\* Newton's iteration from above: x decreases to the integer square root
RECURSIVE sqrt_iter(_, _)
sqrt_iter(n, x) ==
    LET y == (x + n \div x) \div 2
    IN IF y >= x THEN x ELSE sqrt_iter(n, y)

\* np.sqrt on the grid: the integer square root of n >= 0
sqrt(n) == IF n = 0 THEN 0 ELSE sqrt_iter(n, sqrt_guess(n))

\* mutant: np.exp(+mu * dt)
exp_pos_mu(d) == 2 * ExpScale - ExpTable[d + 1]

\* mutant: no decay
exp_zero(d) == ExpScale

exp_neg_mu(d) == ExpTable[d + 1]

\* np.cos(np.radians(angle)) and np.sin(np.radians(angle)) in 1/NormScale
cos_deg(angle) ==
    CASE angle = 0 -> 1000
      [] angle = 37 -> 798
      [] angle = 90 -> 0
      [] angle = 143 -> -798
      [] angle = 180 -> -1000
      [] angle = 217 -> -798
      [] angle = 270 -> 0
      [] angle = 323 -> 798

sin_deg(angle) ==
    CASE angle = 0 -> 0
      [] angle = 37 -> 601
      [] angle = 90 -> 1000
      [] angle = 143 -> 601
      [] angle = 180 -> 0
      [] angle = 217 -> -601
      [] angle = 270 -> -1000
      [] angle = 323 -> -601

-----------------------------------------------------------------------------
(* BilliardBall *)

\* BilliardBall.__init__ (the color is only drawn, never read by the stepper)
BilliardBall(x, y, radius, speed, angle) ==
    [x |-> x, y |-> y, radius |-> radius,
     vx |-> Quot(speed * cos_deg(angle), NormScale),
     vy |-> Quot(speed * sin_deg(angle), NormScale),
     trajectory |-> << <<x, y>> >>,
     stopped |-> FALSE]

\* mutant: the rest flag is not consulted
update_position_always(b, d) ==
    LET nx == b.x + b.vx * d
        ny == b.y + b.vy * d
    IN [b EXCEPT !.x = nx, !.y = ny,
                 !.trajectory = Append(b.trajectory, <<nx, ny>>)]

update_position(b, d) ==
    IF b.stopped THEN b
    ELSE LET nx == b.x + b.vx * d
             ny == b.y + b.vy * d
         IN [b EXCEPT !.x = nx, !.y = ny,
                      !.trajectory = Append(b.trajectory, <<nx, ny>>)]

\* mutant: speed <= 0.02
speed_at_or_below_threshold(b) ==
    b.vx * b.vx + b.vy * b.vy <= StopSpeed * StopSpeed

\* speed < 0.02 is decided on the squares, which is the same comparison
speed_below_threshold(b) == b.vx * b.vx + b.vy * b.vy < StopSpeed * StopSpeed

apply_friction(b, d) ==
    IF b.stopped THEN b
    ELSE IF speed_below_threshold(b)
         THEN [b EXCEPT !.vx = 0, !.vy = 0, !.stopped = TRUE]
         ELSE LET factor == exp_neg_mu(d)
              IN [b EXCEPT !.vx = Quot(b.vx * factor, ExpScale),
                           !.vy = Quot(b.vy * factor, ExpScale)]

\* mutant: a wall negates the velocity component whatever its sign
check_wall_collision_negate(b, table_width, table_height) ==
    IF b.stopped THEN b
    ELSE LET bx == IF b.x - b.radius <= 0
                   THEN [b EXCEPT !.x = b.radius, !.vx = -b.vx]
                   ELSE IF b.x + b.radius >= table_width
                        THEN [b EXCEPT !.x = table_width - b.radius,
                                       !.vx = -b.vx]
                        ELSE b
         IN IF bx.y - bx.radius <= 0
            THEN [bx EXCEPT !.y = bx.radius, !.vy = -bx.vy]
            ELSE IF bx.y + bx.radius >= table_height
                 THEN [bx EXCEPT !.y = table_height - bx.radius,
                                 !.vy = -bx.vy]
                 ELSE bx

check_wall_collision(b, table_width, table_height) ==
    IF b.stopped THEN b
    ELSE LET bx == IF b.x - b.radius <= 0
                   THEN [b EXCEPT !.x = b.radius, !.vx = Abs(b.vx)]
                   ELSE IF b.x + b.radius >= table_width
                        THEN [b EXCEPT !.x = table_width - b.radius,
                                       !.vx = -Abs(b.vx)]
                        ELSE b
         IN IF bx.y - bx.radius <= 0
            THEN [bx EXCEPT !.y = bx.radius, !.vy = Abs(bx.vy)]
            ELSE IF bx.y + bx.radius >= table_height
                 THEN [bx EXCEPT !.y = table_height - bx.radius,
                                 !.vy = -Abs(bx.vy)]
                 ELSE bx

-----------------------------------------------------------------------------
(* BilliardTable *)

start_x == (width * 7) \div 10
start_y == height \div 2

\* the row and column that the nested loops of setup_balls_triangle reach
\* with ball_index = k (k = 0, 1, ...): row r holds r + 1 balls
RECURSIVE rack_row(_, _)
rack_row(k, row) ==
    IF k < ((row + 1) * (row + 2)) \div 2 THEN row ELSE rack_row(k, row + 1)

rack_position(k) ==
    LET row == rack_row(k, 0)
        col == k - (row * (row + 1)) \div 2
        x0 == start_x - row * ball_radius + col * ball_radius * 2
        y0 == start_y + row * ball_radius * 2 - row * ball_radius
        x1 == IF x0 + ball_radius > width - PosScale
              THEN width - ball_radius - PosScale ELSE x0
        y1 == IF y0 + ball_radius > height - PosScale
              THEN height - ball_radius - PosScale ELSE y0
        y2 == IF y1 - ball_radius < PosScale THEN ball_radius + PosScale ELSE y1
    IN <<x1, y2>>

\* speeds and angles are sequences of length num_balls
setup_balls_triangle(num_balls, speeds, angles) ==
    IF num_balls = 1
    THEN << BilliardBall(width \div 2, height \div 2, ball_radius,
                         speeds[1], angles[1]) >>
    ELSE [k \in 1..num_balls |->
             BilliardBall(rack_position(k - 1)[1], rack_position(k - 1)[2],
                          ball_radius, speeds[k], angles[k])]

\* distance < 2 * radius, decided on the squares; the two coordinate tests
\* come first so that the squares stay within the integer range
in_contact(bi, bj) ==
    LET dx == bj.x - bi.x
        dy == bj.y - bi.y
    IN /\ Abs(dx) < 2 * bi.radius
       /\ Abs(dy) < 2 * bi.radius
       /\ dx * dx + dy * dy < (2 * bi.radius) * (2 * bi.radius)

\* mutant: the two balls trade their whole velocities
resolve_pair_trade(bi, bj) ==
    LET dx == bj.x - bi.x
        dy == bj.y - bi.y
        distance == sqrt(dx * dx + dy * dy)
        nx == IF distance > 0 THEN Quot(dx * NormScale, distance) ELSE NormScale
        ny == IF distance > 0 THEN Quot(dy * NormScale, distance) ELSE 0
        overlap == 2 * bi.radius - distance
        i1 == [bi EXCEPT !.vx = bj.vx, !.vy = bj.vy]
        j1 == [bj EXCEPT !.vx = bi.vx, !.vy = bi.vy]
    IN IF distance > 0
       THEN << [i1 EXCEPT !.x = bi.x - Quot(overlap * nx, 2 * NormScale),
                          !.y = bi.y - Quot(overlap * ny, 2 * NormScale)],
               [j1 EXCEPT !.x = bj.x + Quot(overlap * nx, 2 * NormScale),
                          !.y = bj.y + Quot(overlap * ny, 2 * NormScale)] >>
       ELSE << i1, j1 >>

\* mutant: each ball is pushed by the whole overlap, not by half of it
resolve_pair_push(bi, bj) ==
    LET dx == bj.x - bi.x
        dy == bj.y - bi.y
        distance == sqrt(dx * dx + dy * dy)
        nx == IF distance > 0 THEN Quot(dx * NormScale, distance) ELSE NormScale
        ny == IF distance > 0 THEN Quot(dy * NormScale, distance) ELSE 0
        v1n == Quot(bi.vx * nx + bi.vy * ny, NormScale)
        v2n == Quot(bj.vx * nx + bj.vy * ny, NormScale)
        overlap == 2 * bi.radius - distance
        i1 == [bi EXCEPT !.vx = bi.vx + Quot((v2n - v1n) * nx, NormScale),
                         !.vy = bi.vy + Quot((v2n - v1n) * ny, NormScale)]
        j1 == [bj EXCEPT !.vx = bj.vx + Quot((v1n - v2n) * nx, NormScale),
                         !.vy = bj.vy + Quot((v1n - v2n) * ny, NormScale)]
    IN IF distance > 0
       THEN << [i1 EXCEPT !.x = bi.x - Quot(overlap * nx, NormScale),
                          !.y = bi.y - Quot(overlap * ny, NormScale)],
               [j1 EXCEPT !.x = bj.x + Quot(overlap * nx, NormScale),
                          !.y = bj.y + Quot(overlap * ny, NormScale)] >>
       ELSE << i1, j1 >>

\* mutant: coincident centres fall back to the normal (0, 1)
resolve_pair_fallback_y(bi, bj) ==
    LET dx == bj.x - bi.x
        dy == bj.y - bi.y
        distance == sqrt(dx * dx + dy * dy)
        nx == IF distance > 0 THEN Quot(dx * NormScale, distance) ELSE 0
        ny == IF distance > 0 THEN Quot(dy * NormScale, distance) ELSE NormScale
        v1n == Quot(bi.vx * nx + bi.vy * ny, NormScale)
        v2n == Quot(bj.vx * nx + bj.vy * ny, NormScale)
        overlap == 2 * bi.radius - distance
        i1 == [bi EXCEPT !.vx = bi.vx + Quot((v2n - v1n) * nx, NormScale),
                         !.vy = bi.vy + Quot((v2n - v1n) * ny, NormScale)]
        j1 == [bj EXCEPT !.vx = bj.vx + Quot((v1n - v2n) * nx, NormScale),
                         !.vy = bj.vy + Quot((v1n - v2n) * ny, NormScale)]
    IN IF distance > 0
       THEN << [i1 EXCEPT !.x = bi.x - Quot(overlap * nx, 2 * NormScale),
                          !.y = bi.y - Quot(overlap * ny, 2 * NormScale)],
               [j1 EXCEPT !.x = bj.x + Quot(overlap * nx, 2 * NormScale),
                          !.y = bj.y + Quot(overlap * ny, 2 * NormScale)] >>
       ELSE << i1, j1 >>

\* the body of the inner loop of handle_ball_collisions for a pair in
\* contact: the new records of balls i and j
resolve_pair(bi, bj) ==
    LET dx == bj.x - bi.x
        dy == bj.y - bi.y
        distance == sqrt(dx * dx + dy * dy)
        nx == IF distance > 0 THEN Quot(dx * NormScale, distance) ELSE NormScale
        ny == IF distance > 0 THEN Quot(dy * NormScale, distance) ELSE 0
        v1n == Quot(bi.vx * nx + bi.vy * ny, NormScale)
        v2n == Quot(bj.vx * nx + bj.vy * ny, NormScale)
        v1n_new == v2n
        v2n_new == v1n
        overlap == 2 * bi.radius - distance
        i1 == [bi EXCEPT !.vx = bi.vx + Quot((v1n_new - v1n) * nx, NormScale),
                         !.vy = bi.vy + Quot((v1n_new - v1n) * ny, NormScale)]
        j1 == [bj EXCEPT !.vx = bj.vx + Quot((v2n_new - v2n) * nx, NormScale),
                         !.vy = bj.vy + Quot((v2n_new - v2n) * ny, NormScale)]
    IN IF distance > 0
       THEN << [i1 EXCEPT !.x = bi.x - Quot(overlap * nx, 2 * NormScale),
                          !.y = bi.y - Quot(overlap * ny, 2 * NormScale)],
               [j1 EXCEPT !.x = bj.x + Quot(overlap * nx, 2 * NormScale),
                          !.y = bj.y + Quot(overlap * ny, 2 * NormScale)] >>
       ELSE << i1, j1 >>

\* mutant: the loops do not skip the balls at rest
RECURSIVE collide_all_from(_, _, _)
collide_all_from(bs, i, j) ==
    IF i > Len(bs) THEN bs
    ELSE IF j > Len(bs) THEN collide_all_from(bs, i + 1, i + 2)
    ELSE IF ~in_contact(bs[i], bs[j]) THEN collide_all_from(bs, i, j + 1)
    ELSE LET r == resolve_pair(bs[i], bs[j])
         IN collide_all_from([bs EXCEPT ![i] = r[1], ![j] = r[2]], i, j + 1)

\* the two nested loops, from pair (i, j) on
RECURSIVE collide_from(_, _, _)
collide_from(bs, i, j) ==
    IF i > Len(bs) THEN bs
    ELSE IF j > Len(bs) \/ bs[i].stopped THEN collide_from(bs, i + 1, i + 2)
    ELSE IF bs[j].stopped \/ ~in_contact(bs[i], bs[j])
         THEN collide_from(bs, i, j + 1)
    ELSE LET r == resolve_pair(bs[i], bs[j])
         IN collide_from([bs EXCEPT ![i] = r[1], ![j] = r[2]], i, j + 1)

handle_ball_collisions(bs) == collide_from(bs, 1, 2)

\* the per-ball loop of BilliardTable.update
individual_update(b, d) ==
    check_wall_collision(apply_friction(update_position(b, d), d), width, height)

\* mutant: the collision pass runs before the per-ball loop
table_update_collide_first(bs, d) ==
    LET cb == handle_ball_collisions(bs)
    IN [i \in DOMAIN bs |-> individual_update(cb[i], d)]

table_update(bs, d) ==
    handle_ball_collisions([i \in DOMAIN bs |-> individual_update(bs[i], d)])

\* mutant: the table reports rest as soon as one ball is at rest
any_ball_stopped(bs) == \E i \in DOMAIN bs : bs[i].stopped

all_balls_stopped(bs) == \A i \in DOMAIN bs : bs[i].stopped

\* the sum of the segment lengths of trajectory tr from point j on: the
\* inner loop of get_total_path_length, repeated in show_results
RECURSIVE polyline(_, _)
polyline(tr, j) ==
    IF j > Len(tr) THEN 0
    ELSE LET ddx == tr[j][1] - tr[j - 1][1]
             ddy == tr[j][2] - tr[j - 1][2]
         IN sqrt(ddx * ddx + ddy * ddy) + polyline(tr, j + 1)

\* the loop over the balls of get_total_path_length, from ball i on
RECURSIVE sum_paths(_, _)
sum_paths(bs, i) ==
    IF i > Len(bs) THEN 0
    ELSE polyline(bs[i].trajectory, 2) + sum_paths(bs, i + 1)

\* mutant: total = path instead of total += path
last_path_length(bs) == polyline(bs[Len(bs)].trajectory, 2)

get_total_path_length(bs) == sum_paths(bs, 1)

-----------------------------------------------------------------------------
(* BilliardAnimation *)

\* what show_results prints: each ball's path and the total
show_results(bs) ==
    [paths |-> [i \in DOMAIN bs |-> polyline(bs[i].trajectory, 2)],
     total |-> get_total_path_length(bs)]

\* BilliardAnimation.update while animation_running
UpdateRunning ==
    /\ animation_running
    /\ LET nb == table_update(balls, dt)
       IN /\ balls' = nb
          /\ after_wall' = [i \in DOMAIN balls |->
                               LET w == individual_update(balls[i], dt)
                               IN <<w.x, w.y>>]
          /\ time' = time + dt
          /\ IF all_balls_stopped(nb)
             THEN /\ animation_running' = FALSE
                  /\ results' = Append(results, show_results(nb))
                  /\ total_path' = get_total_path_length(nb)
             ELSE /\ animation_running' = TRUE
                  /\ results' = results
                  /\ total_path' = -1
    /\ UNCHANGED before

\* mutant: the early return is missing and the clock keeps running
UpdateStoppedTicks ==
    /\ ~animation_running
    /\ time' = time + dt
    /\ UNCHANGED <<balls, animation_running, results, total_path, after_wall, before>>

\* BilliardAnimation.update once animation_running is false: returns at once
UpdateStopped ==
    /\ ~animation_running
    /\ UNCHANGED vars

\* a collaborator reads BilliardTable.get_total_path_length between steps
QueryMetrics ==
    /\ total_path' = get_total_path_length(balls)
    /\ UNCHANGED <<balls, time, animation_running, results, after_wall, before>>

-----------------------------------------------------------------------------
(* The program: main() builds the table from the user's input *)

MaxBalls == 3

\* speed (0.1 - 10 accepted by main, here in 1/VelScale) and angle entered
\* for a single ball, and the speeds and angles entered for a rack
SoloShots == { <<100, 0>>, <<100, 37>>, <<150, 217>>, <<669, 90>>,
               <<669, 270>>, <<700, 90>>, <<700, 270>> }
RackSpeeds == {100, 150}
RackAngles == {37, 143, 323}

\* in a rack only the first ball's speed and the first two angles vary
Inputs(n) ==
    IF n = 1 THEN { << <<sh[1]>>, <<sh[2]>> >> : sh \in SoloShots }
    ELSE { << [k \in 1..n |-> IF k = 1 THEN s1 ELSE 100],
              [k \in 1..n |-> IF k = 1 THEN a1 ELSE IF k = 2 THEN a2 ELSE 0] >> :
            s1 \in RackSpeeds, a1 \in RackAngles, a2 \in RackAngles }

Init ==
    /\ \E n \in 1..MaxBalls : \E inp \in Inputs(n) :
          balls = setup_balls_triangle(n, inp[1], inp[2])
    /\ time = 0
    /\ animation_running = TRUE
    /\ results = << >>
    /\ total_path = -1
    /\ after_wall = << >>
    /\ before = << >>

Next == UpdateRunning \/ UpdateStopped \/ QueryMetrics

Spec == Init /\ [][Next]_vars

-----------------------------------------------------------------------------
(* BilliardBall.apply_friction called directly on one ball *)

MaxDt == 3
MaxSlow == 22

\* velocity components around the stop threshold, and two fast ones
FrictionComponents == (-MaxSlow..MaxSlow) \cup {-700, 669}

\* a ball as the stepper can hold it: moving with any velocity, or stopped
\* with velocity zero
InitFriction ==
    /\ \E cx \in FrictionComponents, cy \in FrictionComponents,
          st \in BOOLEAN :
          /\ st => (cx = 0 /\ cy = 0)
          /\ balls = << [x |-> width \div 2, y |-> height \div 2,
                         radius |-> ball_radius, vx |-> cx, vy |-> cy,
                         trajectory |-> << <<width \div 2, height \div 2>> >>,
                         stopped |-> st] >>
    /\ time = 0
    /\ animation_running = TRUE
    /\ results = << >>
    /\ total_path = -1
    /\ after_wall = << >>
    /\ before = << >>

FrictionCall ==
    /\ before = << >>
    /\ \E d \in 0..MaxDt :
          balls' = [i \in DOMAIN balls |-> apply_friction(balls[i], d)]
    /\ before' = balls
    /\ UNCHANGED <<time, animation_running, results, total_path, after_wall>>

NextFriction == FrictionCall

SpecFriction == InitFriction /\ [][NextFriction]_vars

-----------------------------------------------------------------------------
(* BilliardTable.handle_ball_collisions called directly on two balls *)

MaxVelStep == 2

\* velocity components in steps of 25/VelScale, and 1.0
CollideComponents == { 25 * k : k \in -MaxVelStep..MaxVelStep } \cup {1000}

\* where the second ball lies relative to the first: coincident, in contact
\* along an axis or along a 3-4-5 direction, touching, and apart.  For these
\* the distance and the normal are exact on the grid.
CollideOffsets == { <<0, 0>>, <<11000, 0>>, <<-10000, 0>>, <<0, 9000>>,
                    <<6000, 8000>>, <<-3000, -4000>>, <<12000, 0>>,
                    <<20000, 0>> }

CollideBall(px, py, cx, cy, st) ==
    [x |-> px, y |-> py, radius |-> ball_radius,
     vx |-> IF st THEN 0 ELSE cx, vy |-> IF st THEN 0 ELSE cy,
     trajectory |-> << <<px, py>> >>, stopped |-> st]

InitCollide ==
    /\ \E off \in CollideOffsets, st \in {0, 1, 2} :
       \E c1 \in CollideComponents \X CollideComponents,
          c2 \in CollideComponents \X CollideComponents :
          /\ (st = 1) => c1 = <<0, 0>>
          /\ (st = 2) => c2 = <<0, 0>>
          /\ balls = << CollideBall(4 * PosScale, 3 * PosScale,
                                    c1[1], c1[2], st = 1),
                        CollideBall(4 * PosScale + off[1], 3 * PosScale + off[2],
                                    c2[1], c2[2], st = 2) >>
    /\ time = 0
    /\ animation_running = TRUE
    /\ results = << >>
    /\ total_path = -1
    /\ after_wall = << >>
    /\ before = << >>

CollideCall ==
    /\ before = << >>
    /\ balls' = handle_ball_collisions(balls)
    /\ before' = balls
    /\ UNCHANGED <<time, animation_running, results, total_path, after_wall>>

NextCollide == CollideCall

SpecCollide == InitCollide /\ [][NextCollide]_vars

-----------------------------------------------------------------------------
(* BilliardBall.check_wall_collision called directly on one ball *)

\* centre abscissas beyond, at and just inside the two walls of the x axis,
\* and mid-table; 4000 is x = 0.2
WallXs == { -2000, 4000, ball_radius, ball_radius + 1, width \div 2,
            width - ball_radius - 1, width - ball_radius, width + 3000 }

\* the same for the y axis
WallYs == { -1000, 5000, ball_radius, ball_radius + 1, height \div 2,
            height - ball_radius - 1, height - ball_radius, height + 1000 }

\* velocity components of both signs, slow and fast
WallComponents == CollideComponents \cup {-1000}

\* a ball as update_position and apply_friction can leave it: anywhere,
\* moving with any velocity, or stopped with velocity zero
InitWall ==
    /\ \E px \in WallXs, py \in WallYs,
          cx \in WallComponents, cy \in WallComponents,
          st \in BOOLEAN :
          /\ st => (cx = 0 /\ cy = 0)
          /\ balls = << CollideBall(px, py, cx, cy, st) >>
    /\ time = 0
    /\ animation_running = TRUE
    /\ results = << >>
    /\ total_path = -1
    /\ after_wall = << >>
    /\ before = << >>

WallCall ==
    /\ before = << >>
    /\ balls' = [i \in DOMAIN balls |->
                    check_wall_collision(balls[i], width, height)]
    /\ before' = balls
    /\ UNCHANGED <<time, animation_running, results, total_path, after_wall>>

NextWall == WallCall

SpecWall == InitWall /\ [][NextWall]_vars

-----------------------------------------------------------------------------
(* BilliardTable.update called directly on a table of three balls *)

\* where the first ball lies: half a unit and next to nothing inside the
\* lower x wall
UpdateBases == { <<ball_radius + 400, height \div 2>>,
                 <<ball_radius + 10, height \div 2>> }

\* where the second and the third ball lie relative to the first
UpdateOffsets2 == { <<11000, 0>>, <<6000, 8000>>, <<20000, 0>> }
UpdateOffsets3 == { <<6000, -8000>>, <<0, -9000>>, <<11000, -1000>> }

\* velocities: towards the wall, oblique, and one below the stop threshold
UpdateVelocities == { <<-50, 0>>, <<25, -25>>, <<50, 50>>, <<-15, 0>> }

InitUpdate ==
    /\ \E p \in UpdateBases, o2 \in UpdateOffsets2, o3 \in UpdateOffsets3,
          v \in [1..3 -> UpdateVelocities], st \in [1..3 -> BOOLEAN] :
          /\ \A i \in 1..3 : st[i] => v[i] = <<-50, 0>>
          /\ balls = << CollideBall(p[1], p[2], v[1][1], v[1][2], st[1]),
                        CollideBall(p[1] + o2[1], p[2] + o2[2],
                                    v[2][1], v[2][2], st[2]),
                        CollideBall(p[1] + o3[1], p[2] + o3[2],
                                    v[3][1], v[3][2], st[3]) >>
    /\ time = 0
    /\ animation_running = TRUE
    /\ results = << >>
    /\ total_path = -1
    /\ after_wall = << >>
    /\ before = << >>

TableUpdateCall ==
    /\ before = << >>
    /\ balls' = table_update(balls, dt)
    /\ after_wall' = [i \in DOMAIN balls |->
                         LET w == individual_update(balls[i], dt)
                         IN <<w.x, w.y>>]
    /\ before' = balls
    /\ UNCHANGED <<time, animation_running, results, total_path>>

NextUpdate == TableUpdateCall

SpecUpdate == InitUpdate /\ [][NextUpdate]_vars

-----------------------------------------------------------------------------
(* BilliardTable.handle_ball_collisions called directly on three balls, the
   first two with coincident centres *)

DegenerateVelocities == { <<-25, 0>>, <<50, 25>>, <<0, -50>>, <<1000, 25>> }

\* the third ball lies at one of the offsets of CollideOffsets from the
\* other two; st names the ball at rest, 0 for none
InitDegenerate ==
    /\ \E off \in CollideOffsets, st \in 0..3,
          v \in [1..3 -> DegenerateVelocities] :
          /\ (st # 0) => v[st] = <<-25, 0>>
          /\ balls = << CollideBall(4 * PosScale, 3 * PosScale,
                                    v[1][1], v[1][2], st = 1),
                        CollideBall(4 * PosScale, 3 * PosScale,
                                    v[2][1], v[2][2], st = 2),
                        CollideBall(4 * PosScale + off[1], 3 * PosScale + off[2],
                                    v[3][1], v[3][2], st = 3) >>
    /\ time = 0
    /\ animation_running = TRUE
    /\ results = << >>
    /\ total_path = -1
    /\ after_wall = << >>
    /\ before = << >>

DegenerateCall ==
    /\ before = << >>
    /\ balls' = handle_ball_collisions(balls)
    /\ before' = balls
    /\ UNCHANGED <<time, animation_running, results, total_path, after_wall>>

NextDegenerate == DegenerateCall

SpecDegenerate == InitDegenerate /\ [][NextDegenerate]_vars

-----------------------------------------------------------------------------
(* Claims *)

\* the summed squared speed of the balls that are not at rest
RECURSIVE C1_Energy(_, _)
C1_Energy(bs, i) ==
    IF i > Len(bs) THEN 0
    ELSE (IF bs[i].stopped THEN 0
          ELSE bs[i].vx * bs[i].vx + bs[i].vy * bs[i].vy) + C1_Energy(bs, i + 1)

\* C1 (termination): repeated calls of BilliardAnimation.update bring every
\* ball to rest and set animation_running to false within a bounded number of
\* steps, collisions and wall contacts included: while the driver runs, each
\* step strictly lowers the summed squared speed of the moving balls or ends
\* with all balls at rest; the driver is still running only before the last
\* frame the animation schedules; and once it has stopped all balls are at rest.
C1_Termination ==
    /\ [](animation_running => time < frames * dt)
    /\ [](~animation_running => \A i \in DOMAIN balls : balls[i].stopped)
    /\ [][time' # time =>
            \/ C1_Energy(balls', 1) < C1_Energy(balls, 1)
            \/ (\A i \in DOMAIN balls' : balls'[i].stopped) /\ ~animation_running']_vars

\* C1 witness: a rack of two or more balls, which overlap and collide from
\* the first step on, has come to rest after more than 50 steps.
C1_Witness ==
    /\ ~animation_running
    /\ \A i \in DOMAIN balls : balls[i].stopped
    /\ Len(balls) >= 2
    /\ time > 50

\* C2 (driver state machine): animation_running starts true; a driver step
\* taken while running advances time by exactly dt and leaves the flag true
\* exactly when some ball is still moving afterwards; the step that clears the
\* flag is the only one that prints the results, so they are printed once;
\* once the flag is false no step changes the table, the time, the flag or
\* the results.
C2_DriverStateMachine ==
    /\ [](time = 0 => animation_running)
    /\ [](animation_running <=> results = << >>)
    /\ [](Len(results) <= 1)
    /\ [][/\ ~animation_running =>
                UNCHANGED <<balls, time, animation_running, results>>
          /\ (animation_running /\ <<balls, time>>' # <<balls, time>>) =>
                /\ time' = time + dt
                /\ animation_running' = ~(\A i \in DOMAIN balls' : balls'[i].stopped)
                /\ Len(results') = IF animation_running' THEN 0 ELSE 1]_vars

\* C2 witness: the driver has stopped after several steps of a rack and has
\* printed one report.
C2_Witness ==
    /\ ~animation_running
    /\ Len(results) = 1
    /\ Len(balls) >= 2
    /\ time >= 2 * dt

\* C3 (absorbing rest state): a ball at rest has velocity exactly zero, and
\* no step changes its rest flag, position, velocity or trajectory, also
\* when a moving ball overlaps it in the collision pass.
C3_AbsorbingRest ==
    /\ [](\A i \in DOMAIN balls :
            balls[i].stopped => (balls[i].vx = 0 /\ balls[i].vy = 0))
    /\ [][\A i \in DOMAIN balls :
            balls[i].stopped =>
               /\ balls'[i].stopped
               /\ balls'[i].x = balls[i].x /\ balls'[i].y = balls[i].y
               /\ balls'[i].vx = 0 /\ balls'[i].vy = 0
               /\ balls'[i].trajectory = balls[i].trajectory]_vars

\* C3 witness: after a driver step a ball at rest is overlapped by a ball
\* that is still moving.
C3_Witness ==
    /\ time > 0
    /\ \E i \in DOMAIN balls, j \in DOMAIN balls :
          /\ balls[i].stopped /\ ~balls[j].stopped
          /\ (balls[j].vx # 0 \/ balls[j].vy # 0)
          /\ Abs(balls[j].x - balls[i].x) < 2 * ball_radius
          /\ Abs(balls[j].y - balls[i].y) < 2 * ball_radius
          /\ (balls[j].x - balls[i].x) * (balls[j].x - balls[i].x)
               + (balls[j].y - balls[i].y) * (balls[j].y - balls[i].y)
             < 4 * ball_radius * ball_radius

\* C4 (wall containment): in every table update, when a ball's
\* check_wall_collision call has returned, the ball lies within
\* [radius, width - radius] x [radius, height - radius].
C4_WallContainment ==
    \A i \in DOMAIN after_wall :
       /\ balls[i].radius <= after_wall[i][1]
       /\ after_wall[i][1] <= width - balls[i].radius
       /\ balls[i].radius <= after_wall[i][2]
       /\ after_wall[i][2] <= height - balls[i].radius

\* the pair that a direct handle_ball_collisions call on two balls resolved:
\* both balls moving and their centers closer than 2 * radius
PairResolved ==
    /\ before # << >>
    /\ Len(before) = 2
    /\ ~before[1].stopped /\ ~before[2].stopped
    /\ Abs(before[2].x - before[1].x) < 2 * before[1].radius
    /\ Abs(before[2].y - before[1].y) < 2 * before[1].radius
    /\ (before[2].x - before[1].x) * (before[2].x - before[1].x)
         + (before[2].y - before[1].y) * (before[2].y - before[1].y)
       < 4 * before[1].radius * before[1].radius

PairCoincident ==
    before[2].x = before[1].x /\ before[2].y = before[1].y

\* a vector along the collision normal: the vector between the centers, or
\* (1, 0) when the centers coincide
NormalX == IF PairCoincident THEN 1 ELSE before[2].x - before[1].x
NormalY == IF PairCoincident THEN 0 ELSE before[2].y - before[1].y

\* C5 (elastic normal exchange): resolving a pair swaps the two balls'
\* velocity components along the collision normal and keeps their components
\* across it, so the pair's summed velocity and summed squared speed are
\* unchanged.
C5_NormalExchange ==
    PairResolved =>
       /\ balls[1].vx * NormalX + balls[1].vy * NormalY
            = before[2].vx * NormalX + before[2].vy * NormalY
       /\ balls[2].vx * NormalX + balls[2].vy * NormalY
            = before[1].vx * NormalX + before[1].vy * NormalY
       /\ \A k \in 1..2 :
             balls[k].vx * NormalY - balls[k].vy * NormalX
               = before[k].vx * NormalY - before[k].vy * NormalX
       /\ balls[1].vx + balls[2].vx = before[1].vx + before[2].vx
       /\ balls[1].vy + balls[2].vy = before[1].vy + before[2].vy
       /\ balls[1].vx * balls[1].vx + balls[1].vy * balls[1].vy
            + balls[2].vx * balls[2].vx + balls[2].vy * balls[2].vy
          = before[1].vx * before[1].vx + before[1].vy * before[1].vy
            + before[2].vx * before[2].vx + before[2].vy * before[2].vy

\* C5 witness: the head-on case along x, velocities (1, 0) and (0, 0) before
\* and (0, 0) and (1, 0) after.
C5_Witness ==
    /\ PairResolved
    /\ before[2].y = before[1].y /\ before[2].x > before[1].x
    /\ before[1].vx = VelScale /\ before[1].vy = 0
    /\ before[2].vx = 0 /\ before[2].vy = 0
    /\ balls[1].vx = 0 /\ balls[1].vy = 0
    /\ balls[2].vx = VelScale /\ balls[2].vy = 0

\* the distance between the centers after the call is exactly 2 * radius
PairAtContact ==
    (balls[2].x - balls[1].x) * (balls[2].x - balls[1].x)
      + (balls[2].y - balls[1].y) * (balls[2].y - balls[1].y)
    = 4 * before[1].radius * before[1].radius

\* the two balls moved by the same amount in opposite directions along the
\* line of centers, the first one away from the second
PairPushedApart ==
    /\ balls[1].x + balls[2].x = before[1].x + before[2].x
    /\ balls[1].y + balls[2].y = before[1].y + before[2].y
    /\ (balls[2].x - balls[1].x) * NormalY = (balls[2].y - balls[1].y) * NormalX
    /\ (before[1].x - balls[1].x) * NormalX + (before[1].y - balls[1].y) * NormalY > 0

\* C6 as stated (positional correction): every resolved pair, the coincident
\* one with its fallback normal (1, 0) included, is pushed apart by half the
\* overlap each, to a center distance of exactly 2 * radius.
C6_PushedToContact ==
    PairResolved => (PairPushedApart /\ PairAtContact)

\* C6 amended: a resolved pair whose centers are distinct is pushed apart by
\* half the overlap each, to a center distance of exactly 2 * radius; a
\* resolved pair whose centers coincide keeps both positions.
C6_PushedToContactUnlessCoincident ==
    PairResolved =>
       IF PairCoincident
       THEN /\ balls[1].x = before[1].x /\ balls[1].y = before[1].y
            /\ balls[2].x = before[2].x /\ balls[2].y = before[2].y
       ELSE PairPushedApart /\ PairAtContact

\* C6 witness: two moving balls with coincident centers were resolved: they
\* traded different x velocities and are still coincident.
C6_Witness ==
    /\ PairResolved /\ PairCoincident
    /\ before[1].vx # before[2].vx
    /\ balls[1].vx = before[2].vx /\ balls[2].vx = before[1].vx
    /\ balls[1].x = balls[2].x /\ balls[1].y = balls[2].y

\* C7 (trajectory): a trajectory starts as the initial position alone and
\* only ever grows at its end; a ball that is not at rest has one point per
\* step taken plus the initial one; a driver step appends to a moving ball's
\* trajectory exactly the position reached by integration, whatever the wall
\* and the collision pass do to the ball afterwards; the trajectory of a
\* ball at rest never changes.
C7_Trajectory ==
    /\ [](\A i \in DOMAIN balls :
            /\ time = 0 =>
                 balls[i].trajectory = << <<balls[i].x, balls[i].y>> >>
            /\ ~balls[i].stopped => Len(balls[i].trajectory) * dt = time + dt
            /\ Len(balls[i].trajectory) >= 1
            /\ Len(balls[i].trajectory) * dt <= time + dt)
    /\ [][\A i \in DOMAIN balls :
            LET tr == balls[i].trajectory
                tr2 == balls'[i].trajectory
            IN /\ Len(tr2) >= Len(tr)
               /\ SubSeq(tr2, 1, Len(tr)) = tr
               /\ (balls[i].stopped \/ time' = time) => tr2 = tr
               /\ (~balls[i].stopped /\ time' # time) =>
                     /\ Len(tr2) = Len(tr) + 1
                     /\ tr2[Len(tr2)] = <<balls[i].x + balls[i].vx * dt,
                                          balls[i].y + balls[i].vy * dt>>]_vars

\* C7 witness: after several steps one ball is at rest with a trajectory
\* shorter than the step count, another is moving with one point per step,
\* and a moving ball's position is no longer its last trajectory point (the
\* wall or the collision pass moved it).
C7_Witness ==
    /\ time > 2 * dt
    /\ \E i \in DOMAIN balls :
          balls[i].stopped /\ Len(balls[i].trajectory) * dt < time + dt
    /\ \E j \in DOMAIN balls :
          /\ ~balls[j].stopped
          /\ Len(balls[j].trajectory) * dt = time + dt
          /\ balls[j].trajectory[Len(balls[j].trajectory)]
               # <<balls[j].x, balls[j].y>>

\* C8 (stopping rule): a ball's rest flag becomes true in a step exactly when
\* the step is a driver step, the ball was not at rest and the speed that
\* apply_friction sees (the velocity the step starts with, which integration
\* leaves alone) is below 0.02; its velocity is then exactly zero.  A moving
\* ball at or above the threshold stays moving, and on a one-ball table
\* (no collision pass) each component keeps its magnitude scaled by
\* exp(-mu * dt).  So a one-ball driver stops at the end of the first step
\* that starts with the speed below 0.02.
C8_StoppingRule ==
    [][\A i \in DOMAIN balls :
         LET slow == balls[i].vx * balls[i].vx + balls[i].vy * balls[i].vy
                        < StopSpeed * StopSpeed
             f == ExpTable[dt + 1]
         IN /\ (balls'[i].stopped /\ ~balls[i].stopped)
                  <=> (time' # time /\ ~balls[i].stopped /\ slow)
            /\ (balls'[i].stopped /\ ~balls[i].stopped) =>
                  (balls'[i].vx = 0 /\ balls'[i].vy = 0)
            /\ (time' # time /\ ~balls[i].stopped /\ ~slow /\ Len(balls) = 1) =>
                  /\ ExpScale * Abs(balls'[i].vx) <= f * Abs(balls[i].vx)
                  /\ f * Abs(balls[i].vx) < ExpScale * (Abs(balls'[i].vx) + 1)
                  /\ ExpScale * Abs(balls'[i].vy) <= f * Abs(balls[i].vy)
                  /\ f * Abs(balls[i].vy) < ExpScale * (Abs(balls'[i].vy) + 1)
            /\ (time' # time /\ Len(balls) = 1) =>
                  (animation_running' <=> ~slow)]_vars

\* C8 witness: a one-ball driver has stopped: the step before the last one
\* moved the ball by 0.02 * dt or more, the last one by less.
C8_Witness ==
    /\ Len(balls) = 1
    /\ ~animation_running /\ balls[1].stopped
    /\ LET tr == balls[1].trajectory
           n == Len(tr)
           last2 == (tr[n][1] - tr[n - 1][1]) * (tr[n][1] - tr[n - 1][1])
                      + (tr[n][2] - tr[n - 1][2]) * (tr[n][2] - tr[n - 1][2])
           prev2 == (tr[n - 1][1] - tr[n - 2][1]) * (tr[n - 1][1] - tr[n - 2][1])
                      + (tr[n - 1][2] - tr[n - 2][2]) * (tr[n - 1][2] - tr[n - 2][2])
       IN /\ n >= 3
          /\ last2 < StopSpeed * StopSpeed * dt * dt
          /\ prev2 >= StopSpeed * StopSpeed * dt * dt

\* the length of the polyline through the first k points of trajectory tr
RECURSIVE C9_Polyline(_, _)
C9_Polyline(tr, k) ==
    IF k < 2 THEN 0
    ELSE C9_Polyline(tr, k - 1)
         + sqrt((tr[k][1] - tr[k - 1][1]) * (tr[k][1] - tr[k - 1][1])
                + (tr[k][2] - tr[k - 1][2]) * (tr[k][2] - tr[k - 1][2]))

RECURSIVE C9_Sum(_, _)
C9_Sum(f, k) == IF k = 0 THEN 0 ELSE C9_Sum(f, k - 1) + f[k]

C9_Paths(bs) ==
    [i \in DOMAIN bs |-> C9_Polyline(bs[i].trajectory, Len(bs[i].trajectory))]

\* no recorded point of the ball touches or crosses a wall
C9_NeverAtWall(b) ==
    \A k \in DOMAIN b.trajectory :
       /\ b.trajectory[k][1] - b.radius > 0
       /\ b.trajectory[k][1] + b.radius < width
       /\ b.trajectory[k][2] - b.radius > 0
       /\ b.trajectory[k][2] + b.radius < height

\* C9 (path-length metric): a step that does not advance the clock (a metrics
\* query) changes nothing of the simulation; the value a query returns is the
\* sum over the balls of the polyline length of the recorded trajectory; the
\* report printed at termination lists these polyline lengths per ball and
\* their sum as the total; and on a one-ball table whose ball never reached a
\* wall every step adds the displacement magnitude |velocity * dt| to it.
C9_PathLength ==
    /\ [](total_path # -1 =>
             total_path = C9_Sum(C9_Paths(balls), Len(balls)))
    /\ [](results # << >> =>
             /\ results[1].paths = C9_Paths(balls)
             /\ results[1].total = C9_Sum(results[1].paths, Len(balls))
             /\ results[1].total = total_path)
    /\ [][time' = time =>
             UNCHANGED <<balls, time, animation_running, results>>]_vars
    /\ [][(time' # time /\ Len(balls) = 1 /\ C9_NeverAtWall(balls'[1])) =>
             C9_Paths(balls')[1]
               = C9_Paths(balls)[1]
                 + sqrt((balls[1].vx * dt) * (balls[1].vx * dt)
                        + (balls[1].vy * dt) * (balls[1].vy * dt))]_vars

\* C9 witness: a query on a running rack returned a positive total, with
\* more than one ball contributing a positive length.
C9_Witness ==
    /\ animation_running
    /\ total_path > 0
    /\ Len(balls) >= 2
    /\ \A i \in DOMAIN balls : Len(balls[i].trajectory) >= 3
    /\ \A i \in DOMAIN balls : C9_Paths(balls)[i] > 0

\* C10 (friction monotonicity): apply_friction(dt), dt >= 0, on a ball not at
\* rest never raises its speed; each velocity component keeps its sign or
\* becomes zero; either both components are zeroed (the ball stops) or both
\* are scaled by one factor between 0 and 1, so the direction is kept up to
\* one grid unit per component.
C10_FrictionMonotone ==
    (before # << >> /\ ~before[1].stopped) =>
       LET vx == before[1].vx
           vy == before[1].vy
           wx == balls[1].vx
           wy == balls[1].vy
       IN /\ wx * wx + wy * wy <= vx * vx + vy * vy
          /\ wx * vx >= 0 /\ wy * vy >= 0
          /\ Abs(wx) <= Abs(vx) /\ Abs(wy) <= Abs(vy)
          /\ \/ balls[1].stopped /\ wx = 0 /\ wy = 0
             \/ /\ ~balls[1].stopped
                /\ Abs(vx * wy - vy * wx) < Abs(vx) + Abs(vy)
                /\ \E k \in DOMAIN ExpTable :
                      /\ ExpScale * Abs(wx) <= ExpTable[k] * Abs(vx)
                      /\ ExpTable[k] * Abs(vx) < ExpScale * (Abs(wx) + 1)
                      /\ ExpScale * Abs(wy) <= ExpTable[k] * Abs(vy)
                      /\ ExpTable[k] * Abs(vy) < ExpScale * (Abs(wy) + 1)

\* C10 witness: a ball moving faster than the threshold in both components
\* was slowed down by apply_friction and is still moving the same way.
C10_Witness ==
    /\ before # << >> /\ ~before[1].stopped /\ ~balls[1].stopped
    /\ before[1].vx > StopSpeed /\ before[1].vy < -StopSpeed
    /\ balls[1].vx > 0 /\ balls[1].vx < before[1].vx
    /\ balls[1].vy < 0 /\ balls[1].vy > before[1].vy

\* the outcome of one axis of check_wall_collision: coordinate c and velocity
\* component v of a ball of radius r between the walls at 0 and at extent
C11_Axis(c, v, r, extent, c2, v2) ==
    IF c - r <= 0
    THEN c2 = r /\ v2 >= 0 /\ Abs(v2) = Abs(v)
    ELSE IF c + r >= extent
         THEN c2 = extent - r /\ v2 <= 0 /\ Abs(v2) = Abs(v)
         ELSE c2 = c /\ v2 = v

\* C11: check_wall_collision on a ball that is not at rest puts a coordinate
\* that is at or beyond a wall onto radius (lower wall) or extent - radius
\* (far wall) and makes that velocity component point into the table with
\* its magnitude kept, whatever its sign was; an axis on which no wall is
\* reached keeps its coordinate and its velocity component; the trajectory
\* and the rest flag are not touched
C11_WallReflection ==
    (before # << >> /\ ~before[1].stopped) =>
        /\ Len(balls) = 1
        /\ C11_Axis(before[1].x, before[1].vx, before[1].radius, width,
                    balls[1].x, balls[1].vx)
        /\ C11_Axis(before[1].y, before[1].vy, before[1].radius, height,
                    balls[1].y, balls[1].vy)
        /\ balls[1].radius = before[1].radius
        /\ balls[1].trajectory = before[1].trajectory
        /\ balls[1].stopped = before[1].stopped

\* the ball at x = 0.2 of radius 0.3 moving with (-1, 0) on the table of
\* width 10 was put onto x = 0.3 with velocity (+1, 0), and its y axis kept
C11_Witness ==
    /\ before # << >>
    /\ ~before[1].stopped
    /\ before[1].x = 4000 /\ before[1].y = height \div 2
    /\ before[1].vx = -1000 /\ before[1].vy = 0
    /\ balls[1].x = 6000 /\ balls[1].vx = 1000
    /\ balls[1].y = height \div 2 /\ balls[1].vy = 0

\* the pairs (i, j), i < j, of n balls, in increasing order of i and then j
RECURSIVE C12_Ordered(_)
C12_Ordered(S) ==
    IF S = {} THEN << >>
    ELSE LET first == CHOOSE p \in S : \A q \in S :
                          p[1] < q[1] \/ (p[1] = q[1] /\ p[2] <= q[2])
         IN << first >> \o C12_Ordered(S \ {first})

C12_Pairs(n) == C12_Ordered({ pr \in (1..n) \X (1..n) : pr[1] < pr[2] })

\* one visit of each pair of the list from the k-th on, in the list's order:
\* a pair with a ball at rest or not in contact is skipped
RECURSIVE C12_Pass(_, _, _)
C12_Pass(bs, pairs, k) ==
    IF k > Len(pairs) THEN bs
    ELSE LET i == pairs[k][1]
             j == pairs[k][2]
         IN IF bs[i].stopped \/ bs[j].stopped \/ ~in_contact(bs[i], bs[j])
            THEN C12_Pass(bs, pairs, k + 1)
            ELSE LET r == resolve_pair(bs[i], bs[j])
                 IN C12_Pass([bs EXCEPT ![i] = r[1], ![j] = r[2]], pairs, k + 1)

\* the balls of the table before the call, each moved, then slowed, then
\* kept within the walls
C12_Individual ==
    [i \in DOMAIN before |->
        check_wall_collision(
            apply_friction(update_position(before[i], dt), dt), width, height)]

C12_Reversed(pairs) == [k \in DOMAIN pairs |-> pairs[Len(pairs) + 1 - k]]

\* C12: one BilliardTable.update leaves the balls as they are after (1) each
\* ball, in list order, has been moved, then slowed, then kept within the
\* walls, and (2) one collision pass has then visited the pairs (i, j),
\* i < j, in increasing order of i and then j on the outcome of (1) for all
\* balls, skipping the pairs with a ball at rest; the positions right after
\* the walls were applied are those of (1), a ball at rest after (1) is left
\* as (1) left it, and nothing is applied after the pass: the walls are not
\* applied again
C12_PhaseOrder ==
    before # << >> =>
        /\ balls = C12_Pass(C12_Individual, C12_Pairs(Len(before)), 1)
        /\ after_wall = [i \in DOMAIN before |->
                            <<C12_Individual[i].x, C12_Individual[i].y>>]
        /\ \A i \in DOMAIN before :
              C12_Individual[i].stopped => balls[i] = C12_Individual[i]

\* three moving balls in mutual contact after their individual updates: each
\* was displaced by the pass, the order of the pairs shows in the outcome,
\* and the first ball, pushed over the line of the lower x wall by the pass,
\* stays there, not at rest, at the end of the step
C12_Witness ==
    /\ before # << >>
    /\ Len(balls) = 3
    /\ \A i \in DOMAIN balls :
          /\ ~balls[i].stopped
          /\ <<balls[i].x, balls[i].y>> # after_wall[i]
    /\ balls # C12_Pass(C12_Individual, C12_Reversed(C12_Pairs(3)), 1)
    /\ after_wall[1][1] - balls[1].radius >= 0
    /\ balls[1].x - balls[1].radius < 0

\* the first two balls of the table before the call are not at rest and
\* have the same centre
C13_Degenerate ==
    /\ before # << >>
    /\ Len(before) = 3
    /\ ~before[1].stopped /\ ~before[2].stopped
    /\ before[1].x = before[2].x /\ before[1].y = before[2].y

\* the table before the call with the x velocity components of its first
\* two balls exchanged, and nothing else changed
C13_Exchanged ==
    [before EXCEPT ![1].vx = before[2].vx, ![2].vx = before[1].vx]

\* C13: a collision pass over a table whose first two balls are not at rest
\* and have coincident centres yields a table (it does not fail): the two
\* balls exchange their x velocity components and keep their y components
\* and their positions, and the pass then goes on to the remaining pairs
\* (1, 3) and (2, 3) as it does for any pair; when the third ball is at rest
\* or away from the two, the exchange is all that happened
C13_DegenerateRecovery ==
    C13_Degenerate =>
        /\ DOMAIN balls = DOMAIN before
        /\ balls = C12_Pass(C13_Exchanged, << <<1, 3>>, <<2, 3>> >>, 1)
        /\ (before[3].stopped \/ ~in_contact(before[1], before[3])) =>
              /\ balls[1].vx = before[2].vx /\ balls[2].vx = before[1].vx
              /\ balls[1].vy = before[1].vy /\ balls[2].vy = before[2].vy
              /\ \A i \in 1..3 :
                    /\ balls[i].x = before[i].x /\ balls[i].y = before[i].y
                    /\ balls[i].trajectory = before[i].trajectory
                    /\ balls[i].stopped = before[i].stopped
              /\ balls[3] = before[3]

\* two coincident balls with different x and different y components and a
\* third moving ball away from them: after the pass the two have each
\* other's x component and their own y component, and are still coincident
C13_Witness ==
    /\ C13_Degenerate
    /\ ~before[3].stopped
    /\ ~in_contact(before[1], before[3])
    /\ before[1].vx # before[2].vx /\ before[1].vy # before[2].vy
    /\ balls[1].vx = before[2].vx /\ balls[2].vx = before[1].vx
    /\ balls[1].vy = before[1].vy /\ balls[2].vy = before[2].vy
    /\ balls[1].x = balls[2].x /\ balls[1].y = balls[2].y
    /\ balls[3] = before[3]

=============================================================================
